---- MODULE Spec2Model ----
(***************************************************************************)
(* State-machine model of statement_aggregator.py: aggregate_statements    *)
(* reads each input file in command-line order, unions the data rows into  *)
(* a set, remembers the first header, records header differences, then     *)
(* writes the result once and logs the diagnostics.                        *)
(*                                                                         *)
(* A file is modelled at the level of the records csv.reader yields: a     *)
(* sequence of records, each a sequence of cell strings.  The list that    *)
(* is handed to write_tsv is built by iterating a Python set, so its order *)
(* is arbitrary; it is modelled as a bag (each row with its multiplicity). *)
(* Whether the output path can be opened for writing is a fact of the      *)
(* environment, found out at the first attempt and the same from then on;  *)
(* the output path is distinct from the input paths.                       *)
(***************************************************************************)
EXTENDS Integers, Sequences, FiniteSets, Bags, TLC

\* Largest number of input paths on the command line.
MaxFiles == 3

Range(s) == {s[j] : j \in 1..Len(s)}

----------------------------------------------------------------------------
(* The input space *)

Headers == {<<>>, <<"A">>, <<"A", "B">>, <<"A", "C">>}

Row1 == <<"1", "2">>
Row2 == <<"A", "B">>

\* No data row, a row twice, two distinct rows.
DataChoices == {<<>>, <<Row1, Row1>>, <<Row1, Row2>>}

\* Records of a file that has a header row.
Contents == {<<h>> \o d : h \in Headers, d \in DataChoices}

FullContent == <<<<"A", "B">>, Row1, Row2>>

\* A path on disk: its suffix, what goes wrong when it is opened or parsed,
\* and the records a csv.reader yields from it.
GoodFiles == {[suffix |-> ".csv", fault |-> "none", records |-> c] : c \in Contents}

OddFiles ==
    { [suffix |-> ".TSV", fault |-> "none",      records |-> FullContent],
      [suffix |-> ".txt", fault |-> "none",      records |-> FullContent],
      [suffix |-> ".csv", fault |-> "io",        records |-> FullContent],
      [suffix |-> ".tsv", fault |-> "malformed", records |-> FullContent],
      [suffix |-> ".csv", fault |-> "none",      records |-> <<>>] }

Files == GoodFiles \cup OddFiles

\* Non-empty command lines of at most MaxFiles paths.
CommandLines(n) == [1..n -> Files]

NoFile == [exists |-> FALSE, header |-> <<>>, data |-> EmptyBag]

OldFile == [exists |-> TRUE, header |-> <<"Z">>, data |-> SetToBag({<<"9">>})]

----------------------------------------------------------------------------
(* Pure functions *)

\* str.lower() on the suffixes that occur.
Lower(s) ==
    CASE s = ".CSV" -> ".csv"
      [] s = ".TSV" -> ".tsv"
      [] OTHER -> s

detect_file_type(filepath) ==
    IF Lower(filepath.suffix) = ".csv" THEN "csv"
    ELSE IF Lower(filepath.suffix) = ".tsv" THEN "tsv"
    ELSE "ValueError"

\* read_file: the exception raised ("none" on success), the header and the
\* data rows returned, and the lines logged on the way.
read_file(filepath) ==
    LET filetype == detect_file_type(filepath)
        reading  == <<[level |-> "INFO", msg |-> "Reading file",
                       type |-> filetype, file |-> filepath]>>
    IN  IF filetype = "ValueError"
        THEN [raised |-> "ValueError: Unsupported file type", header |-> <<>>,
              data |-> <<>>, log |-> <<>>]
        ELSE IF filepath.fault = "io"
        THEN [raised |-> "OSError", header |-> <<>>, data |-> <<>>, log |-> reading]
        ELSE IF filepath.fault = "malformed"
        THEN [raised |-> "csv.Error", header |-> <<>>, data |-> <<>>, log |-> reading]
        ELSE IF filepath.records = <<>>
        THEN [raised |-> "StopIteration", header |-> <<>>, data |-> <<>>, log |-> reading]
        ELSE [raised |-> "none", header |-> Head(filepath.records),
              data |-> Tail(filepath.records), log |-> reading]

\* Mode "a" in place of "w": the header and the rows are appended to what
\* the path holds.
write_tsv_Append(old, header, data) ==
    IF old.exists
    THEN [exists |-> TRUE, header |-> old.header,
          data |-> old.data (+) SetToBag({header}) (+) data]
    ELSE [exists |-> TRUE, header |-> header, data |-> data]

\* write_tsv opens the path with mode "w": the old content is discarded.
write_tsv(old, header, data) ==
    [exists |-> TRUE, header |-> header, data |-> data]

\* [list(row) for row in all_data]: every row of the set once, in no order.
RowList(rows) == SetToBag(rows)

\* Lines 107-108: "not first_file_header" is true of the empty list.
AdoptHeader(first, header) ==
    IF first = <<>> THEN header ELSE first

\* Lines 109: the elif branch is taken.
HeaderDiffers(first, header) ==
    first # <<>> /\ header # first

\* Lines 112-114: one entry per position of this header that is beyond the
\* first header or names another column.
RECURSIVE DiffEntries(_, _, _, _)
DiffEntries(name, first, header, i) ==
    IF i > Len(header) THEN <<>>
    ELSE (IF i > Len(first) \/ header[i] # first[i]
          THEN <<[file |-> name, column |-> header[i]]>>
          ELSE <<>>) \o DiffEntries(name, first, header, i + 1)

\* Counting the distinct rows of the file.
CountRows_Distinct(total, data) == total + Cardinality(Range(data))

\* Line 101.
CountRows(total, data) == total + Len(data)

\* Assigning the file's rows in place of adding them.
AddRows_Overwrite(rows, data) == Range(data)

\* Lines 116-118.
AddRows(rows, data) == rows \cup Range(data)

\* Writing unconditionally.
ShouldWrite_Always(rows) == TRUE

\* Line 126: "if all_data".
ShouldWrite(rows) == rows # {}

\* Lines 130-135.
RECURSIVE DiffLines(_)
DiffLines(diffs) ==
    IF diffs = <<>> THEN <<>>
    ELSE <<[level |-> "WARNING", msg |-> "difference",
            file |-> Head(diffs).file, column |-> Head(diffs).column]>>
         \o DiffLines(Tail(diffs))

ColumnReport(diffs) ==
    IF diffs # <<>>
    THEN <<[level |-> "WARNING", msg |-> "Column composition differences found:"]>>
         \o DiffLines(diffs)
    ELSE <<[level |-> "INFO",
            msg |-> "All input files have the same column composition."]>>

\* Lines 138-139.
RowCountReport(nin, nout) ==
    <<[level |-> "INFO", msg |-> "Total input rows", n |-> nin],
      [level |-> "INFO", msg |-> "Total output rows (after deduplication)", n |-> nout]>>

\* Lines 142-145: the headers are logged by iterating a set; the lines are
\* kept as one entry carrying the set.
HeaderReport(hs) ==
    IF Cardinality(hs) > 0
    THEN <<[level |-> "WARNING", msg |-> "unique headers",
            n |-> Cardinality(hs), headers |-> hs]>>
    ELSE <<>>

----------------------------------------------------------------------------
(* State *)

VARIABLES
    input_filepaths,    \* the command line
    output_file,        \* what is stored at output_filepath
    writable,           \* open(output_filepath, "w"): "untried" | "ok" | "raises"
    run,                \* 1 during the first invocation, 2 during the second
    pc,                 \* "loop" | "done" | "aborted" (uncaught exception)
    k,                  \* number of input paths the loop has consumed
    all_data, column_diffs, first_file_header,
    total_input_rows, total_output_rows, headers_set,
    log,                \* lines logged by this invocation
    writes,             \* write_tsv calls made by this invocation
    output_before,      \* output_file when this invocation started
    first_run           \* what the first invocation ended with

vars == <<input_filepaths, output_file, writable, run, pc, k, all_data, column_diffs,
          first_file_header, total_input_rows, total_output_rows, headers_set,
          log, writes, output_before, first_run>>

NoRun == [pc |-> "none", header |-> <<>>, rows |-> {}, nin |-> 0, nout |-> 0,
          output |-> NoFile]

\* Lines 89-96.
Locals ==
    /\ all_data = {}
    /\ column_diffs = <<>>
    /\ first_file_header = <<>>
    /\ total_input_rows = 0
    /\ total_output_rows = 0
    /\ headers_set = {}

Init ==
    /\ \E n \in 1..MaxFiles : input_filepaths \in CommandLines(n)
    /\ output_file \in {NoFile, OldFile}
    /\ writable = "untried"
    /\ run = 1
    /\ pc = "loop"
    /\ k = 0
    /\ Locals
    /\ log = <<>>
    /\ writes = <<>>
    /\ output_before = output_file
    /\ first_run = NoRun

----------------------------------------------------------------------------
(* Actions *)

\* Catching ValueError only: any other exception leaves the loop.
ProcessFileError_OnlyValueError ==
    /\ pc = "loop"
    /\ k < Len(input_filepaths)
    /\ LET filepath == input_filepaths[k + 1]
           r == read_file(filepath)
       IN  /\ r.raised = "ValueError: Unsupported file type"
           /\ log' = log \o r.log \o
                     <<[level |-> "ERROR", msg |-> "Error processing",
                        file |-> filepath, cause |-> r.raised]>>
    /\ k' = k + 1
    /\ UNCHANGED <<input_filepaths, output_file, writable, run, pc, all_data, column_diffs,
                   first_file_header, total_input_rows, total_output_rows,
                   headers_set, writes, output_before, first_run>>

\* One loop iteration in which read_file raises: lines 98-100, 120-121.
ProcessFileError ==
    /\ pc = "loop"
    /\ k < Len(input_filepaths)
    /\ LET filepath == input_filepaths[k + 1]
           r == read_file(filepath)
       IN  /\ r.raised # "none"
           /\ log' = log \o r.log \o
                     <<[level |-> "ERROR", msg |-> "Error processing",
                        file |-> filepath, cause |-> r.raised]>>
    /\ k' = k + 1
    /\ UNCHANGED <<input_filepaths, output_file, writable, run, pc, all_data, column_diffs,
                   first_file_header, total_input_rows, total_output_rows,
                   headers_set, writes, output_before, first_run>>

\* Skipping the rows of a file whose header differs (a "continue" after the
\* differences are recorded).
ProcessFile_SkipMismatch ==
    /\ pc = "loop"
    /\ k < Len(input_filepaths)
    /\ LET filepath == input_filepaths[k + 1]
           r == read_file(filepath)
       IN  /\ r.raised = "none"
           /\ total_input_rows' = CountRows(total_input_rows, r.data)
           /\ first_file_header' = AdoptHeader(first_file_header, r.header)
           /\ headers_set' = IF HeaderDiffers(first_file_header, r.header)
                             THEN headers_set \cup {r.header}
                             ELSE headers_set
           /\ column_diffs' = IF HeaderDiffers(first_file_header, r.header)
                              THEN column_diffs \o
                                   DiffEntries(filepath, first_file_header, r.header, 1)
                              ELSE column_diffs
           /\ all_data' = IF HeaderDiffers(first_file_header, r.header)
                          THEN all_data
                          ELSE AddRows(all_data, r.data)
           /\ log' = log \o r.log
    /\ k' = k + 1
    /\ UNCHANGED <<input_filepaths, output_file, writable, run, pc, total_output_rows,
                   writes, output_before, first_run>>

\* One loop iteration in which read_file returns: lines 98-118.
ProcessFile ==
    /\ pc = "loop"
    /\ k < Len(input_filepaths)
    /\ LET filepath == input_filepaths[k + 1]
           r == read_file(filepath)
       IN  /\ r.raised = "none"
           /\ total_input_rows' = CountRows(total_input_rows, r.data)
           /\ first_file_header' = AdoptHeader(first_file_header, r.header)
           /\ headers_set' = IF HeaderDiffers(first_file_header, r.header)
                             THEN headers_set \cup {r.header}
                             ELSE headers_set
           /\ column_diffs' = IF HeaderDiffers(first_file_header, r.header)
                              THEN column_diffs \o
                                   DiffEntries(filepath, first_file_header, r.header, 1)
                              ELSE column_diffs
           /\ all_data' = AddRows(all_data, r.data)
           /\ log' = log \o r.log
    /\ k' = k + 1
    /\ UNCHANGED <<input_filepaths, output_file, writable, run, pc, total_output_rows,
                   writes, output_before, first_run>>

\* After the loop, when write_tsv is called and open raises: lines 123-127,
\* 63-65.  Nothing catches the exception.
WriteFails ==
    /\ pc = "loop"
    /\ k = Len(input_filepaths)
    /\ ShouldWrite(all_data)
    /\ writable # "ok"
    /\ writable' = "raises"
    /\ total_output_rows' = Cardinality(all_data)
    /\ writes' = Append(writes, [header |-> first_file_header,
                                 data |-> RowList(all_data)])
    /\ log' = Append(log, [level |-> "INFO", msg |-> "Writing to TSV file"])
    /\ pc' = "aborted"
    /\ UNCHANGED <<input_filepaths, output_file, run, k, all_data,
                   column_diffs, first_file_header, total_input_rows, headers_set,
                   output_before, first_run>>

\* After the loop: lines 123-145.
Finish ==
    /\ pc = "loop"
    /\ k = Len(input_filepaths)
    /\ ShouldWrite(all_data) => writable # "raises"
    /\ writable' = IF ShouldWrite(all_data) THEN "ok" ELSE writable
    /\ total_output_rows' = Cardinality(all_data)
    /\ output_file' = IF ShouldWrite(all_data)
                      THEN write_tsv(output_file, first_file_header, RowList(all_data))
                      ELSE output_file
    /\ writes' = IF ShouldWrite(all_data)
                 THEN Append(writes, [header |-> first_file_header,
                                      data |-> RowList(all_data)])
                 ELSE writes
    /\ log' = log
              \o (IF ShouldWrite(all_data)
                  THEN <<[level |-> "INFO", msg |-> "Writing to TSV file"]>>
                  ELSE <<>>)
              \o ColumnReport(column_diffs)
              \o RowCountReport(total_input_rows, Cardinality(all_data))
              \o HeaderReport(headers_set)
    /\ pc' = "done"
    /\ UNCHANGED <<input_filepaths, run, k, all_data, column_diffs,
                   first_file_header, total_input_rows, headers_set,
                   output_before, first_run>>

\* The tool is run again with the same command line: lines 89-96 anew.
Rerun ==
    /\ pc \in {"done", "aborted"}
    /\ run = 1
    /\ run' = 2
    /\ first_run' = [pc |-> pc, header |-> first_file_header, rows |-> all_data,
                     nin |-> total_input_rows, nout |-> total_output_rows,
                     output |-> output_file]
    /\ pc' = "loop"
    /\ k' = 0
    /\ all_data' = {}
    /\ column_diffs' = <<>>
    /\ first_file_header' = <<>>
    /\ total_input_rows' = 0
    /\ total_output_rows' = 0
    /\ headers_set' = {}
    /\ log' = <<>>
    /\ writes' = <<>>
    /\ output_before' = output_file
    /\ UNCHANGED <<input_filepaths, output_file, writable>>

Next == ProcessFileError \/ ProcessFile \/ WriteFails \/ Finish \/ Rerun

Spec == Init /\ [][Next]_vars

----------------------------------------------------------------------------
(* What the input files say, independently of the aggregator's variables *)

NumFiles == Len(input_filepaths)

\* The read of this path succeeds: supported extension, no I/O failure, no
\* malformed content, and a header row.
Succeeds(f) ==
    /\ Lower(f.suffix) \in {".csv", ".tsv"}
    /\ f.fault = "none"
    /\ f.records # <<>>

HeaderOf(f) == f.records[1]

DataOf(f) == [j \in 1..(Len(f.records) - 1) |-> f.records[j + 1]]

\* Positions among the first n paths whose read succeeds.
ReadOk(n) == {j \in 1..n : Succeeds(input_filepaths[j])}

RowsOf(n) == UNION {Range(DataOf(input_filepaths[j])) : j \in ReadOk(n)}

RECURSIVE RowCountOf(_)
RowCountOf(n) ==
    IF n = 0 THEN 0
    ELSE RowCountOf(n - 1) +
         (IF Succeeds(input_filepaths[n]) THEN Len(DataOf(input_filepaths[n])) ELSE 0)

Min(S) == CHOOSE x \in S : \A y \in S : x <= y

Logged(msg, n) ==
    \E j \in DOMAIN log : log[j].msg = msg /\ log[j].n = n

LoopStep == pc = "loop" /\ k < NumFiles /\ k' = k + 1

----------------------------------------------------------------------------
(* Claims *)

\* C1: after every file processed so far, the unique-row set is exactly the
\* set of distinct data rows of the successfully read files among them; at
\* the end of the run the output row count, stored and reported, is its size.
C1_UniqueRows ==
    /\ all_data = RowsOf(k)
    /\ pc = "done" =>
         /\ total_output_rows = Cardinality(RowsOf(NumFiles))
         /\ Logged("Total output rows (after deduplication)",
                   Cardinality(RowsOf(NumFiles)))

\* A finished run with a failed file holding a row no read file has, a row
\* repeated inside one read file, and a row shared by two read files.
C1_Witness ==
    /\ pc = "done"
    /\ \E j \in 1..NumFiles :
         /\ ~Succeeds(input_filepaths[j])
         /\ \E r \in Range(input_filepaths[j].records) : r \notin all_data
    /\ \E j \in ReadOk(NumFiles) :
         Len(DataOf(input_filepaths[j])) >
         Cardinality(Range(DataOf(input_filepaths[j])))
    /\ \E i, j \in ReadOk(NumFiles) :
         /\ i < j
         /\ Range(DataOf(input_filepaths[i])) \cap
            Range(DataOf(input_filepaths[j])) # {}
    /\ Cardinality(all_data) < total_input_rows

\* C2: the total input row count is the sum of the data-row counts of the
\* successfully read files processed so far, whatever their headers; at the
\* end of the run that sum over all files is what is reported.
C2_TotalInputRows ==
    /\ total_input_rows = RowCountOf(k)
    /\ pc = "done" => Logged("Total input rows", RowCountOf(NumFiles))

\* A finished run with a failed file, a read file whose header differs from
\* the first one, and duplicates counted.
C2_Witness ==
    /\ pc = "done"
    /\ \E j \in 1..NumFiles : ~Succeeds(input_filepaths[j])
    /\ \E i, j \in ReadOk(NumFiles) :
         /\ i < j
         /\ HeaderOf(input_filepaths[i]) # HeaderOf(input_filepaths[j])
         /\ Len(DataOf(input_filepaths[j])) = 2
    /\ total_input_rows > Cardinality(all_data)

\* C4: a loop iteration on a file whose read fails leaves the aggregate
\* state as it was, logs an error naming the file as the last line, and moves
\* on to the next file of the same run; the loop never stops before the last
\* file, and a run in which no file was read is not ended by an exception.
C4_Failing ==
    /\ pc = "loop"
    /\ k < NumFiles
    /\ ~Succeeds(input_filepaths[k + 1])

C4_Skipped ==
    /\ UNCHANGED <<all_data, first_file_header, headers_set, column_diffs,
                   total_input_rows, total_output_rows, output_file, writes>>
    /\ k' = k + 1
    /\ pc' = "loop"
    /\ run' = run
    /\ Len(log') > Len(log)
    /\ log'[Len(log')].level = "ERROR"
    /\ log'[Len(log')].file = input_filepaths[k + 1]
    /\ \A j \in 1..Len(log) : log'[j] = log[j]

C4_FailureIsolated ==
    /\ [][C4_Failing => C4_Skipped]_vars
    /\ [](pc = "loop" => ENABLED Next)
    /\ [](pc = "aborted" => k = NumFiles /\ ReadOk(NumFiles) # {})

\* A finished run in which a file failed between two files that were read,
\* with rows already aggregated when it failed.
C4_Witness ==
    /\ pc = "done"
    /\ \E j \in 2..(NumFiles - 1) :
         /\ ~Succeeds(input_filepaths[j])
         /\ Succeeds(input_filepaths[j - 1])
         /\ DataOf(input_filepaths[j - 1]) # <<>>
         /\ Succeeds(input_filepaths[j + 1])
         /\ HeaderOf(input_filepaths[j + 1]) # HeaderOf(input_filepaths[j - 1])

\* C5: write_tsv is not called during the loop; after the loop it has been
\* called exactly once, with the canonical header (first_file_header) and
\* every unique row once, if the unique-row set is non-empty (the output path
\* then holds that header and those rows, unless opening it raised), and
\* never if it is empty, in which case the output path holds what it held
\* before the run and the output row count, stored and reported, is zero.
C5_WrittenIffNonEmpty ==
    /\ pc = "loop" => writes = <<>> /\ output_file = output_before
    /\ (pc # "loop" /\ all_data # {}) =>
         /\ Len(writes) = 1
         /\ writes[1].header = first_file_header
         /\ DOMAIN writes[1].data = all_data
         /\ \A r \in all_data : writes[1].data[r] = 1
         /\ pc = "done" =>
               output_file = [exists |-> TRUE, header |-> first_file_header,
                              data |-> writes[1].data]
         /\ pc = "aborted" => writable = "raises" /\ output_file = output_before
    /\ (pc = "done" /\ all_data = {}) =>
         /\ writes = <<>>
         /\ output_file = output_before
         /\ total_output_rows = 0
         /\ Logged("Total output rows (after deduplication)", 0)

\* A finished run in which files were read, none had a data row, and the
\* output path held a file before the run.
C5_Witness ==
    /\ pc = "done"
    /\ all_data = {}
    /\ ReadOk(NumFiles) # {}
    /\ output_before.exists
    /\ output_file = output_before

\* C3: once a file has been read successfully, the canonical header
\* (first_file_header) is the header of the first successfully read file,
\* whatever that header is, and that is the header handed to write_tsv.
C3_CanonicalIsFirstHeader ==
    ReadOk(k) # {} =>
        LET first == HeaderOf(input_filepaths[Min(ReadOk(k))])
        IN  /\ first_file_header = first
            /\ (pc = "done" /\ writes # <<>>) => writes[1].header = first

\* C6: a loop iteration on a successfully read file whose header differs
\* from the canonical header adds all its data rows to the unique-row set and
\* its row count to the total, logs no error and moves on to the next file.
C6_Mismatching ==
    /\ pc = "loop"
    /\ k < NumFiles
    /\ Succeeds(input_filepaths[k + 1])
    /\ ReadOk(k) # {}
    /\ HeaderOf(input_filepaths[k + 1]) # first_file_header

C6_Aggregated ==
    /\ all_data' = all_data \cup Range(DataOf(input_filepaths[k + 1]))
    /\ total_input_rows' = total_input_rows + Len(DataOf(input_filepaths[k + 1]))
    /\ k' = k + 1
    /\ pc' = "loop"
    /\ \A j \in (Len(log) + 1)..Len(log') : log'[j].level # "ERROR"

C6_MismatchNeverBlocks == [][C6_Mismatching => C6_Aggregated]_vars

\* A finished run in which a later file with another header of another
\* length brought a row that no other read file has, and the row is kept.
C6_Witness ==
    /\ pc = "done"
    /\ \E i, j \in ReadOk(NumFiles) :
         /\ i < j
         /\ HeaderOf(input_filepaths[i]) # <<>>
         /\ Len(HeaderOf(input_filepaths[j])) # Len(HeaderOf(input_filepaths[i]))
         /\ headers_set # {}
         /\ \E r \in Range(DataOf(input_filepaths[j])) :
              /\ r \in all_data
              /\ \A m \in ReadOk(NumFiles) \ {j} :
                   r \notin Range(DataOf(input_filepaths[m]))

\* The entries the position-wise comparison of a header with the canonical
\* header calls for: none if the tuples are equal, else one per position
\* that is beyond the canonical header or names another column.
RECURSIVE C7_Positions(_, _, _)
C7_Positions(f, canon, n) ==
    IF n = 0 THEN <<>>
    ELSE C7_Positions(f, canon, n - 1) \o
         (IF n > Len(canon) \/ HeaderOf(f)[n] # canon[n]
          THEN <<[file |-> f, column |-> HeaderOf(f)[n]]>>
          ELSE <<>>)

C7_Expected(f, canon) ==
    IF HeaderOf(f) = canon THEN <<>>
    ELSE C7_Positions(f, canon, Len(HeaderOf(f)))

\* C7: a loop iteration on a successfully read file that comes after a
\* successfully read file appends to the column-difference list exactly the
\* entries the comparison of its header with the canonical header calls for.
C7_DiffEntries ==
    [][(/\ pc = "loop"
        /\ k < NumFiles
        /\ Succeeds(input_filepaths[k + 1])
        /\ ReadOk(k) # {})
       => column_diffs' = column_diffs \o
                          C7_Expected(input_filepaths[k + 1], first_file_header)]_vars

\* The same, for the iterations that find a canonical header with at least
\* one column.
C7_DiffEntriesNonEmptyCanonical ==
    [][(/\ pc = "loop"
        /\ k < NumFiles
        /\ Succeeds(input_filepaths[k + 1])
        /\ first_file_header # <<>>)
       => column_diffs' = column_diffs \o
                          C7_Expected(input_filepaths[k + 1], first_file_header)]_vars

\* C8: a second run over the same command line and output path ends with the
\* header, the unique rows, the row counts and the output file the first run
\* ended with.
C8_SecondRunSame ==
    (run = 2 /\ pc # "loop") =>
        /\ pc = first_run.pc
        /\ first_file_header = first_run.header
        /\ all_data = first_run.rows
        /\ total_input_rows = first_run.nin
        /\ total_output_rows = first_run.nout
        /\ output_file = first_run.output

\* A finished second run that found the first run's output file in place
\* and wrote again.
C8_Witness ==
    /\ run = 2
    /\ pc = "done"
    /\ output_before.exists
    /\ output_before = first_run.output
    /\ Len(writes) = 1
    /\ Cardinality(all_data) = 2
    /\ total_input_rows > 2

\* C9: the divergent-header set holds exactly the headers of the successfully
\* read files processed so far that differ from the canonical header; it does
\* not hold the canonical header and is empty until a file has been read.
C9_DivergentHeaders ==
    /\ headers_set =
         IF ReadOk(k) = {} THEN {}
         ELSE {HeaderOf(input_filepaths[j]) : j \in ReadOk(k)} \ {first_file_header}
    /\ first_file_header \notin headers_set

\* The same, for the runs whose first successfully read file has a header
\* with at least one column.
C9_DivergentHeadersNonEmptyFirst ==
    (ReadOk(k) # {} /\ HeaderOf(input_filepaths[Min(ReadOk(k))]) # <<>>)
        => C9_DivergentHeaders

\* C10: at the end of a run, an empty column-difference list (the message
\* that all input files have the same column composition) goes with an empty
\* divergent-header set (no warning about unique headers).
C10_DiagnosticsAgree ==
    pc = "done" =>
        /\ column_diffs = <<>> => headers_set = {}
        /\ (\E j \in DOMAIN log :
              log[j].msg = "All input files have the same column composition.")
           => ~(\E j \in DOMAIN log : log[j].msg = "unique headers")

====
